---- MODULE Spec2Model ----
(***************************************************************************)
(* A model of WeaviateVectorStore (langchain_weaviate/vectorstores.py):    *)
(* the store object, the engine collection it talks to, the embedding      *)
(* provider, and the public operations add_texts, the five search entry    *)
(* points and delete.  add_texts is split at its blocking engine requests  *)
(* so that calls of several callers interleave; the searches and delete    *)
(* issue at most one engine request and are single steps.                  *)
(***************************************************************************)
EXTENDS Integers, Sequences, FiniteSets, TLC

(* ------------------------------ bounds -------------------------------- *)

\* most texts in one add_texts call
MaxTexts == 2

\* most add_texts calls started in one behaviour
MaxAdds == 1

\* largest k / fetch_k a search asks for
MaxK == 2

\* callers of the concurrent specification
MaxCallers == 2

(* ------------------------------ values -------------------------------- *)

\* Python's None for the optional str arguments (tenant, query, keyword_query)
None == "None"

\* text_key of the store (constructor argument; from_texts' default)
TEXT_KEY == "text"

Texts == {"hello", "bye"}

TenantNames == {"t1"}

\* values uuid4() can produce
GenUuids == {"g1", "g2"}

\* metadata values that are datetime.datetime objects
DatetimeVals == {"datetime(2024,1,1)"}

EmptyDict == [x \in {} |-> ""]

\* the metadata dicts a caller passes
MetaDicts ==
  { EmptyDict,
    ("source" :> "x") @@ ("when" :> "datetime(2024,1,1)"),
    (TEXT_KEY :> "bye") @@ ("score" :> "x") }

\* {**a, **b}: the right operand wins
DictMerge(a, b) == b @@ a

DictPop(d, key) == [x \in (DOMAIN d) \ {key} |-> d[x]]

\* 1..n -> S as sequences
SeqsOfLen(S, n) == [1..n -> S]

\* datetime.isoformat()
IsoFormat(v) == "2024-01-01T00:00:00"

_json_serializable(value) ==
  IF value \in DatetimeVals THEN IsoFormat(value) ELSE value

\* no vector (None / empty)
NoVector == <<>>

\* the embedding provider: a fixed map from text to a 2-d vector
Embed(text) ==
  CASE text = "hello" -> <<1, 0>>
    [] text = "bye"   -> <<3, 4>>
    [] OTHER          -> <<0, 1>>

\* embed_documents: one vector per text, in order
EmbedDocuments(texts) == [i \in 1..Len(texts) |-> Embed(texts[i])]

(* ------------------------------ state --------------------------------- *)

VARIABLES
  _multi_tenancy_enabled, \* self._multi_tenancy_enabled, read once in __init__
  _embedding,             \* TRUE iff self._embedding is not None
  tenants,                \* engine: the collection's tenants
  created,                \* engine: tenant -> number of times it came into being
  objects,                \* engine: the stored objects
  failed_objects,         \* self._client.batch.failed_objects
  adds,                   \* add_texts calls started so far
  call                    \* caller -> its current / last call

vars == << _multi_tenancy_enabled, _embedding, tenants, created, objects,
           failed_objects, adds, call >>

NoErr == [type |-> "none", msg |-> "", cause |-> ""]

Err(type, msg) == [type |-> type, msg |-> msg, cause |-> ""]

IdleCall ==
  [ pc |-> "idle", op |-> "none", args |-> EmptyDict, ids |-> <<>>,
    net |-> <<>>, outcome |-> "none", err |-> NoErr, result |-> <<>>,
    logged |-> <<>>, own_failed |-> <<>>, hits |-> <<>>, engine |-> "none" ]

\* the store just constructed, on a new collection or on one that was there
\* already (with tenants, if it is multi-tenant)
InitWith(callers) ==
  /\ _multi_tenancy_enabled \in BOOLEAN
  /\ _embedding \in BOOLEAN
  /\ tenants \in IF _multi_tenancy_enabled THEN SUBSET TenantNames ELSE {{}}
  /\ created = [t \in TenantNames |-> IF t \in tenants THEN 1 ELSE 0]
  /\ objects = {}
  /\ failed_objects = <<>>
  /\ adds = 0
  /\ call = [c \in callers |-> IdleCall]

\* a caller is between calls
Free(c) == call[c].pc = "idle"

(* --------------------------- engine requests -------------------------- *)

\* self._collection.tenants.get(): the names of the collection's tenants
TenantsGet == tenants

\* self._collection.tenants.create(...): adding a tenant that is already
\* there changes nothing
TenantsCreate(tenant) == tenants \cup {tenant}

\* the engine accepts a write only in the scope the collection is configured
\* for: a tenant of the collection when multi-tenant, none otherwise
EngineAcceptsScope(tenant) ==
  IF _multi_tenancy_enabled THEN tenant \in tenants ELSE tenant = None

\* insert-or-replace by (uuid, tenant)
Upsert(objs, o) ==
  {x \in objs : ~(x.uuid = o.uuid /\ x.tenant = o.tenant)} \cup {o}

RECURSIVE ApplyWrites(_, _, _)
\* the batch's objects applied in order, skipping those that failed
ApplyWrites(objs, writes, failed) ==
  IF writes = <<>> THEN objs
  ELSE LET i == Len(writes)
           before == ApplyWrites(objs, SubSeq(writes, 1, i - 1), failed)
       IN IF i \in failed THEN before ELSE Upsert(before, writes[i])

RECURSIVE SelectIdx(_, _)
\* the indices of S in increasing order
SelectIdx(n, S) ==
  IF n = 0 THEN <<>>
  ELSE IF n \in S THEN Append(SelectIdx(n - 1, S), n) ELSE SelectIdx(n - 1, S)

(* ------------------------------ add_texts ----------------------------- *)

\* _does_tenant_exist's assertion
TenantAssertOk == _multi_tenancy_enabled

\* the id of the i-th object: uuid4() unless kwargs carries uuids or ids
PickId(kwargs, i, gen) ==
  IF "uuids" \in DOMAIN kwargs THEN kwargs["uuids"][i]
  ELSE IF "ids" \in DOMAIN kwargs THEN kwargs["ids"][i]
  ELSE gen[i]

\* data_properties of the i-th text
DataProperties(texts, metadatas, i) ==
  LET base == TEXT_KEY :> texts[i] IN
  IF metadatas = <<>> THEN base
  ELSE LET md == metadatas[1][i]
       IN DictMerge(base, [key \in DOMAIN md |-> _json_serializable(md[key])])

\* the object handed to batch.add_object for the i-th text
BatchObject(a, embeddings, i, gen) ==
  [ uuid |-> PickId(a.kwargs, i, gen),
    properties |-> DataProperties(a.texts, a.metadatas, i),
    vector |-> IF embeddings # <<>> THEN embeddings[i] ELSE NoVector,
    tenant |-> a.tenant,
    \* history: the text and the metadata the caller gave for this object
    written |-> [text |-> a.texts[i],
                 metadata |-> IF a.metadatas = <<>> THEN EmptyDict
                              ELSE a.metadatas[1][i]] ]

\* add_texts up to its first engine request or the assertion
AddTextsCall(c, texts, metadatas, tenant, kwargs) ==
  /\ Free(c)
  /\ adds' = adds + 1
  /\ LET a == [texts |-> texts, metadatas |-> metadatas, tenant |-> tenant,
               kwargs |-> kwargs]
         new == [IdleCall EXCEPT !.op = "add_texts", !.args = a]
     IN IF tenant # None
        THEN IF ~TenantAssertOk
             THEN call' = [call EXCEPT ![c] =
                    [new EXCEPT !.pc = "done", !.outcome = "raised",
                       !.err = Err("AssertionError",
                         "Cannot check for tenant existence when multi-tenancy is not enabled")]]
             ELSE call' = [call EXCEPT ![c] =
                    [new EXCEPT
                       !.net = <<[kind |-> "tenants.get"]>>,
                       !.pc = IF tenant \in TenantsGet THEN "batch" ELSE "create"]]
        ELSE call' = [call EXCEPT ![c] = [new EXCEPT !.pc = "batch"]]
  /\ UNCHANGED << _multi_tenancy_enabled, _embedding, tenants, created, objects,
                  failed_objects >>

\* the create step as it would be if a create that finds the tenant already
\* there ended the call with the engine's error
AddTextsCreateTenantStrict(c) ==
  /\ call[c].pc = "create"
  /\ LET t == call[c].args.tenant IN
       /\ tenants' = TenantsCreate(t)
       /\ created' = [created EXCEPT ![t] = IF t \in tenants THEN @ ELSE @ + 1]
       /\ call' = [call EXCEPT
                     ![c].pc = IF t \in tenants THEN "done" ELSE "batch",
                     ![c].outcome = IF t \in tenants THEN "raised" ELSE @,
                     ![c].err = IF t \in tenants
                                THEN Err("UnexpectedStatusCodeError", "tenant exists")
                                ELSE @,
                     ![c].net = Append(@, [kind |-> "tenants.create", tenant |-> t])]
  /\ UNCHANGED << _multi_tenancy_enabled, _embedding, objects, failed_objects, adds >>

\* the tenant was absent at the check: create it
AddTextsCreateTenant(c) ==
  /\ call[c].pc = "create"
  /\ LET t == call[c].args.tenant IN
       /\ tenants' = TenantsCreate(t)
       /\ created' = [created EXCEPT ![t] = IF t \in tenants THEN @ ELSE @ + 1]
       /\ call' = [call EXCEPT ![c].pc = "batch",
                     ![c].net = Append(@, [kind |-> "tenants.create", tenant |-> t])]
  /\ UNCHANGED << _multi_tenancy_enabled, _embedding, objects, failed_objects, adds >>

\* embed_documents, then the whole `with batch.dynamic()` block: every
\* add_object and the flush at its exit; `failed` are the writes the engine
\* reports as failed, `gen` what uuid4() returned for each text
AddTextsBatch(c, gen, failed) ==
  /\ call[c].pc = "batch"
  /\ LET a == call[c].args
         n == Len(a.texts)
         embeddings == IF _embedding THEN EmbedDocuments(a.texts) ELSE <<>>
         writes == [i \in 1..n |-> BatchObject(a, embeddings, i, gen)]
         embedReq == IF _embedding
                     THEN <<[kind |-> "embed_documents", texts |-> a.texts]>>
                     ELSE <<>>
         writeReqs == [i \in 1..n |->
                         [kind |-> "batch.add_object", uuid |-> writes[i].uuid,
                          properties |-> writes[i].properties,
                          tenant |-> writes[i].tenant]]
         fails == [j \in 1..Cardinality(failed) |->
                     [original_uuid |-> writes[SelectIdx(n, failed)[j]].uuid,
                      message |-> "write failed"]]
     IN /\ Len(gen) = n
        /\ failed \subseteq 1..n
        /\ ~EngineAcceptsScope(a.tenant) => failed = 1..n
        /\ objects' = ApplyWrites(objects, writes, failed)
        /\ failed_objects' = fails
        /\ call' = [call EXCEPT ![c].pc = "log",
                      ![c].ids = [i \in 1..n |-> writes[i].uuid],
                      ![c].own_failed = fails,
                      ![c].net = @ \o embedReq \o writeReqs]
  /\ UNCHANGED << _multi_tenancy_enabled, _embedding, tenants, created, adds >>

\* the error lines for the client's failed objects
LogLines(failed_objs) ==
  [j \in 1..Len(failed_objs) |->
     [uuid |-> failed_objs[j].original_uuid, reason |-> failed_objs[j].message]]

\* add_texts as it would be if a reported failure aborted the call
AddTextsReturnRaising(c) ==
  /\ call[c].pc = "log"
  /\ call' = [call EXCEPT ![c].pc = "done",
                ![c].logged = LogLines(failed_objects),
                ![c].outcome = IF failed_objects = <<>> THEN "returned" ELSE "raised",
                ![c].err = IF failed_objects = <<>> THEN NoErr
                           ELSE Err("ValueError", "Failed to add object"),
                ![c].result = IF failed_objects = <<>> THEN call[c].ids ELSE <<>>]
  /\ UNCHANGED << _multi_tenancy_enabled, _embedding, tenants, created, objects,
                  failed_objects, adds >>

\* read the client's failed objects, log each, return the ids
AddTextsReturn(c) ==
  /\ call[c].pc = "log"
  /\ call' = [call EXCEPT ![c].pc = "done",
                ![c].logged = LogLines(failed_objects),
                ![c].outcome = "returned",
                ![c].result = call[c].ids]
  /\ UNCHANGED << _multi_tenancy_enabled, _embedding, tenants, created, objects,
                  failed_objects, adds >>

(* ------------------------------ searching ----------------------------- *)

Has(kwargs, key) == key \in DOMAIN kwargs

\* kwargs.get(key, default)
Get(kwargs, key, default) == IF Has(kwargs, key) THEN kwargs[key] ELSE default

InSeq(x, s) == \E i \in 1..Len(s) : s[i] = x

\* what a finished call hands back
Returned(docs, net, hits) ==
  [outcome |-> "returned", err |-> NoErr, result |-> docs, net |-> net,
   hits |-> hits, engine |-> "answered"]

\* an error raised by the store itself
Raised(err, net) ==
  [outcome |-> "raised", err |-> err, result |-> <<>>, net |-> net,
   hits |-> <<>>, engine |-> "none"]

\* the engine's query exception let through as it is
PassQueryError(e) ==
  [type |-> "WeaviateQueryException", msg |-> e, cause |-> e]

\* lines 278-279: the engine's query exception, re-raised as a ValueError
\* that carries its message
WrapQueryError(e) ==
  [type |-> "ValueError", msg |-> "Error during query", cause |-> e]

\* an error raised by the engine client while serving a request
RaisedByEngine(err, net) ==
  [outcome |-> "raised", err |-> err, result |-> <<>>, net |-> net,
   hits |-> <<>>, engine |-> "raised"]

\* _tenant_context without its second check
TenantContextErrorFirstOnly(tenant) ==
  IF tenant # None /\ ~_multi_tenancy_enabled
  THEN Err("ValueError", "Cannot use tenant context when multi-tenancy is not enabled")
  ELSE NoErr

\* the checks of _tenant_context, before it yields the collection
TenantContextError(tenant) ==
  IF tenant # None /\ ~_multi_tenancy_enabled
  THEN Err("ValueError", "Cannot use tenant context when multi-tenancy is not enabled")
  ELSE IF tenant = None /\ _multi_tenancy_enabled
  THEN Err("ValueError", "Must use tenant context when multi-tenancy is enabled")
  ELSE NoErr

\* the guard as it would be without its exception for near_text
EmbeddingGuardEveryMode(search_method) == ~_embedding

\* the guard that opens _perform_search
EmbeddingGuardFails(search_method) ==
  search_method # "near_text" /\ ~_embedding

\* the stored objects a query in this scope can see
InScope(tenant) == {o \in objects : o.tenant = tenant}

\* the answers the engine can give to a query with this limit: any `limit` or
\* fewer distinct objects of the scope, in any order
EngineAnswers(tenant, limit) ==
  UNION { {h \in SeqsOfLen(InScope(tenant), n) :
             \A i, j \in 1..n : i # j => h[i] # h[j]} : n \in 0..limit }

\* the engine raises WeaviateQueryException for a scope it does not have
EngineRejectsQuery(tenant) ==
  _multi_tenancy_enabled /\ tenant \notin tenants

\* one object of a query result, as the engine returns it for these kwargs
ResultObject(o, kwargs) ==
  [ uuid |-> o.uuid,
    properties |->
      IF Has(kwargs, "return_properties")
      THEN [key \in {x \in DOMAIN o.properties : InSeq(x, kwargs["return_properties"])}
              |-> o.properties[key]]
      ELSE o.properties,
    metadata |->
      [ score |-> IF InSeq("score", Get(kwargs, "return_metadata", <<>>))
                  THEN "0.9" ELSE None,
        explain_score |-> None ],
    vector |-> IF Get(kwargs, "include_vector", FALSE) /\ o.vector # NoVector
               THEN "default" :> o.vector ELSE EmptyDict ]

\* lines 283-300: one result object turned into a Document (and its score)
ToDocument(obj, return_uuids, return_score) ==
  LET text == obj.properties[TEXT_KEY]
      props == DictPop(obj.properties, TEXT_KEY)
      filtered_metadata ==
        [key \in {x \in DOMAIN obj.metadata : obj.metadata[x] # None}
           |-> obj.metadata[key]]
      vec == IF obj.vector # EmptyDict THEN "vector" :> obj.vector["default"]
             ELSE EmptyDict
      uid == IF return_uuids THEN "uuid" :> obj.uuid ELSE EmptyDict
      merged_props ==
        DictMerge(DictMerge(DictMerge(props, filtered_metadata), vec), uid)
      doc == [page_content |-> text, metadata |-> merged_props]
  IN IF ~return_score THEN doc
     ELSE [doc |-> doc, score |-> <<obj.metadata.score, obj.metadata.explain_score>>]

\* _perform_search.  a: query, k, keyword_query, return_score, search_method,
\* tenant, kwargs.  eng: what the engine does with the query, if one is
\* issued: fail (raise WeaviateQueryException) or answer with hits.
_perform_search(a, eng) ==
  IF EmbeddingGuardFails(a.search_method)
  THEN Raised(Err("ValueError",
         "_embedding cannot be None for similarity_search if search_method is not near_text"),
         <<>>)
  ELSE
  LET kw1 == IF Has(a.kwargs, "return_properties")
                /\ ~InSeq(TEXT_KEY, a.kwargs["return_properties"])
             THEN [a.kwargs EXCEPT !["return_properties"] = Append(@, TEXT_KEY)]
             ELSE a.kwargs
      return_uuids == Get(kw1, "return_uuids", FALSE)
      kwargs == DictPop(kw1, "return_uuids")
      ctxErr == TenantContextError(a.tenant)
      embedReq == <<[kind |-> "embed_query", text |-> a.query]>>
      hybridPre == IF _embedding THEN embedReq ELSE <<>>
      queryReq0 ==
        CASE a.search_method = "hybrid" ->
               IF _embedding
               THEN [kind |-> "query.hybrid",
                     query |-> IF a.keyword_query # None THEN a.keyword_query
                               ELSE a.query,
                     vector |-> Embed(a.query), limit |-> a.k, tenant |-> a.tenant]
               ELSE [kind |-> "query.hybrid", query |-> a.query,
                     vector |-> NoVector, limit |-> a.k, tenant |-> a.tenant]
          [] a.search_method = "near_vector" ->
               [kind |-> "query.near_vector", query |-> None,
                vector |-> Get(kwargs, "near_vector", NoVector), limit |-> a.k,
                tenant |-> a.tenant]
          [] OTHER ->
               [kind |-> "query.near_text", query |-> a.query,
                vector |-> NoVector, limit |-> a.k, tenant |-> a.tenant]
      queryReq ==
        queryReq0 @@ [include_vector |-> Get(kwargs, "include_vector", FALSE)]
      pre == IF a.search_method = "hybrid" THEN hybridPre ELSE <<>>
      net == Append(pre, queryReq)
      docs == [i \in 1..Len(eng.hits) |->
                 ToDocument(ResultObject(eng.hits[i], kwargs), return_uuids,
                            a.return_score)]
  IN IF ctxErr # NoErr THEN Raised(ctxErr, <<>>)
     ELSE IF a.search_method \notin {"hybrid", "near_vector", "near_text"}
     THEN Raised(Err("ValueError", "Invalid search method"), <<>>)
     ELSE IF a.search_method = "near_vector" /\ ~Has(kwargs, "near_vector")
     THEN Raised(Err("TypeError", "near_vector() missing required argument"), pre)
     ELSE IF eng.fail
     THEN RaisedByEngine(WrapQueryError("WeaviateQueryException: query failed"), net)
     ELSE Returned(docs, net, eng.hits)

\* what the engine may do with the one query a search issues
EngineOutcomes(tenant, limit) ==
  {[fail |-> TRUE, hits |-> <<>>]}
    \cup IF EngineRejectsQuery(tenant) THEN {}
         ELSE {[fail |-> FALSE, hits |-> h] : h \in EngineAnswers(tenant, limit)}

\* a single-step call of caller c ends with outcome r
Finish(c, op, args, r) ==
  /\ call' = [call EXCEPT ![c] =
       [IdleCall EXCEPT !.pc = "done", !.op = op, !.args = args,
          !.outcome = r.outcome, !.err = r.err, !.result = r.result,
          !.net = r.net, !.hits = r.hits, !.engine = r.engine]]
  /\ UNCHANGED << _multi_tenancy_enabled, _embedding, tenants, created,
                  failed_objects, adds >>

\* a single-step call that leaves the engine as it is
FinishRead(c, op, args, r) ==
  /\ Finish(c, op, args, r)
  /\ UNCHANGED objects

\* similarity_search(query, k, keyword_query, **kwargs)
SimilaritySearch(c, query, k, keyword_query, kwargs, eng) ==
  /\ Free(c)
  /\ LET a == [query |-> query, k |-> k, keyword_query |-> keyword_query,
               return_score |-> FALSE,
               search_method |-> Get(kwargs, "search_method", "hybrid"),
               tenant |-> Get(kwargs, "tenant", None),
               kwargs |-> DictPop(DictPop(kwargs, "search_method"), "tenant")]
     IN FinishRead(c, "similarity_search", a, _perform_search(a, eng))

\* similarity_search_with_score(query, k, **kwargs)
SimilaritySearchWithScore(c, query, k, kwargs, eng) ==
  /\ Free(c)
  /\ LET a == [query |-> query, k |-> k, keyword_query |-> None,
               return_score |-> TRUE,
               search_method |-> Get(kwargs, "search_method", "hybrid"),
               tenant |-> Get(kwargs, "tenant", None),
               kwargs |-> DictPop(DictPop(kwargs, "search_method"), "tenant")]
     IN FinishRead(c, "similarity_search_with_score", a, _perform_search(a, eng))

\* similarity_search_by_vector(embedding, k, **kwargs)
SimilaritySearchByVector(c, embedding, k, kwargs, eng) ==
  /\ Free(c)
  /\ LET a == [query |-> None, k |-> k, keyword_query |-> None,
               return_score |-> FALSE, search_method |-> "near_vector",
               tenant |-> Get(kwargs, "tenant", None),
               kwargs |-> ("near_vector" :> embedding) @@ DictPop(kwargs, "tenant")]
     IN FinishRead(c, "similarity_search_by_vector", a, _perform_search(a, eng))

(* ---------------------- maximal marginal relevance -------------------- *)

Dot(a, b) == a[1] * b[1] + a[2] * b[2]

\* the vectors of the model have whole-number lengths
Norm(a) == CHOOSE n \in 0..5 : n * n = Dot(a, a)

\* 25 * cosine similarity; a zero vector has similarity 0
Cos25(a, b) ==
  IF Norm(a) = 0 \/ Norm(b) = 0 THEN 0
  ELSE (25 * Dot(a, b)) \div (Norm(a) * Norm(b))

SetMax(S) == CHOOSE x \in S : \A y \in S : y <= x

SetMin(S) == CHOOSE x \in S : \A y \in S : x <= y

\* 50 * the MMR score of candidate i; lam2 is 2 * lambda_mult
MmrScore(q, cands, selected, lam2, i) ==
  LET redundancy ==
        IF selected = <<>> THEN 0
        ELSE SetMax({Cos25(cands[i], cands[selected[j]]) : j \in 1..Len(selected)})
  IN lam2 * Cos25(q, cands[i]) - (2 - lam2) * redundancy

RECURSIVE MmrSelect(_, _, _, _, _)
MmrSelect(q, cands, k, lam2, selected) ==
  LET rest == {i \in 1..Len(cands) : ~InSeq(i, selected)} IN
  IF Len(selected) >= k \/ rest = {} THEN selected
  ELSE LET best == SetMax({MmrScore(q, cands, selected, lam2, i) : i \in rest})
           pick == SetMin({i \in rest : MmrScore(q, cands, selected, lam2, i) = best})
       IN MmrSelect(q, cands, k, lam2, Append(selected, pick))

\* utils.maximal_marginal_relevance: the selected indices, in selection order
maximal_marginal_relevance(q, cands, k, lam2) == MmrSelect(q, cands, k, lam2, <<>>)

\* the selected document handed on with its vector
KeepVector(doc) == doc

\* lines 413-418: the selected documents, each without its vector
StripVector(doc) ==
  [page_content |-> doc.page_content, metadata |-> DictPop(doc.metadata, "vector")]

\* max_marginal_relevance_search_by_vector, given the outcome of its search
MmrByVector(embedding, k, lam2, r) ==
  IF r.outcome = "raised" THEN r
  ELSE IF \E i \in 1..Len(r.result) : ~Has(r.result[i].metadata, "vector")
  THEN Raised(Err("KeyError", "vector"), r.net)
  ELSE LET embeddings == [i \in 1..Len(r.result) |-> r.result[i].metadata["vector"]]
           mmr_selected == maximal_marginal_relevance(embedding, embeddings, k, lam2)
           docs == [j \in 1..Len(mmr_selected) |-> StripVector(r.result[mmr_selected[j]])]
       IN Returned(docs, r.net, r.hits)

\* the arguments max_marginal_relevance_search_by_vector gives _perform_search
MmrSearchArgs(embedding, fetch_k, kwargs) ==
  [query |-> None, k |-> fetch_k, keyword_query |-> None, return_score |-> FALSE,
   search_method |-> "near_vector", tenant |-> Get(kwargs, "tenant", None),
   kwargs |-> ("include_vector" :> TRUE) @@ ("near_vector" :> embedding)
                @@ DictPop(kwargs, "tenant")]

\* max_marginal_relevance_search_by_vector(embedding, k, fetch_k, lambda_mult, **kwargs)
MaxMarginalRelevanceSearchByVector(c, embedding, k, fetch_k, lam2, kwargs, eng) ==
  /\ Free(c)
  /\ LET a == MmrSearchArgs(embedding, fetch_k, kwargs)
     IN FinishRead(c, "max_marginal_relevance_search_by_vector",
                   [embedding |-> embedding, k |-> k, fetch_k |-> fetch_k,
                    lam2 |-> lam2, tenant |-> a.tenant, kwargs |-> kwargs],
                   MmrByVector(embedding, k, lam2, _perform_search(a, eng)))

\* max_marginal_relevance_search(query, k, fetch_k, lambda_mult, **kwargs)
MmrSearch(query, k, fetch_k, lam2, kwargs, eng) ==
  IF ~_embedding
  THEN Raised(Err("ValueError",
         "max_marginal_relevance_search requires a suitable Embeddings object"), <<>>)
  ELSE LET embedding == Embed(query)
           r == MmrByVector(embedding, k, lam2,
                  _perform_search(MmrSearchArgs(embedding, fetch_k, kwargs), eng))
       IN [r EXCEPT !.net = <<[kind |-> "embed_query", text |-> query]>> \o @]

MaxMarginalRelevanceSearch(c, query, k, fetch_k, lam2, kwargs, eng) ==
  /\ Free(c)
  /\ FinishRead(c, "max_marginal_relevance_search",
       [query |-> query, k |-> k, fetch_k |-> fetch_k, lam2 |-> lam2,
        tenant |-> Get(kwargs, "tenant", None), kwargs |-> kwargs],
       MmrSearch(query, k, fetch_k, lam2, kwargs, eng))

(* -------------------------------- delete ------------------------------ *)

\* delete(ids, tenant): ids is None (<<>>) or a list (<<list>>)
DeleteOutcome(ids, tenant) ==
  IF ids = <<>> THEN Raised(Err("ValueError", "No ids provided to delete."), <<>>)
  ELSE IF TenantContextError(tenant) # NoErr THEN Raised(TenantContextError(tenant), <<>>)
  ELSE LET req == <<[kind |-> "data.delete_many", ids |-> ids[1], tenant |-> tenant]>>
       IN IF EngineRejectsQuery(tenant)
          THEN RaisedByEngine(Err("UnexpectedStatusCodeError", "tenant not found"), req)
          ELSE Returned(<<>>, req, <<>>)

Delete(c, ids, tenant) ==
  /\ Free(c)
  /\ LET r == DeleteOutcome(ids, tenant) IN
       /\ Finish(c, "delete", [ids |-> ids, tenant |-> tenant], r)
       /\ objects' = IF r.outcome = "returned"
                     THEN {o \in objects : ~(o.tenant = tenant /\ InSeq(o.uuid, ids[1]))}
                     ELSE objects

(* ------------------------- the caller's next call --------------------- *)

\* the finished call's result is with the caller; the store, which is reused
\* across calls, takes the next one
NextCall(c) ==
  /\ call[c].pc = "done"
  /\ call' = [call EXCEPT ![c] = IdleCall]
  /\ UNCHANGED << _multi_tenancy_enabled, _embedding, tenants, created, objects,
                  failed_objects, adds >>

(* ------------------------------- inputs ------------------------------- *)

\* the first n of s
Prefix(s, n) == SubSeq(s, 1, n)

\* metadatas: None (<<>>) or a list aligned with the texts (<<list>>)
MetadatasFor(n) == {<<>>} \cup {<<m>> : m \in SeqsOfLen(MetaDicts, n)}

\* kwargs of add_texts: nothing, ids, uuids, or both
AddKwargsFor(n) ==
  LET ids == Prefix(<<"u1", "u2", "u1", "u2">>, n)
      uuids == Prefix(<<"u2", "u1", "u2", "u1">>, n)
  IN { EmptyDict, "ids" :> ids, "uuids" :> uuids, ("ids" :> ids) @@ ("uuids" :> uuids) }

TenantArgs == TenantNames \cup {None}

\* the add_texts calls of the search specification: ids from uuid4()
AddTextsStep(c) ==
  \/ /\ Free(c)
     /\ adds < MaxAdds
     /\ \E n \in 0..MaxTexts :
       \E texts \in SeqsOfLen(Texts, n), metadatas \in MetadatasFor(n),
          tenant \in TenantArgs :
         AddTextsCall(c, texts, metadatas, tenant, EmptyDict)
  \/ AddTextsCreateTenant(c)
  \/ /\ call[c].pc = "batch"
     /\ \E gen \in SeqsOfLen(GenUuids, Len(call[c].args.texts)),
           failed \in SUBSET (1..Len(call[c].args.texts)) :
          AddTextsBatch(c, gen, failed)
  \/ AddTextsReturn(c)

Queries == {"hello"}

QueryVectors == {<<1, 0>>, <<0, 0>>}

\* 2 * lambda_mult: 0, 0.5 (the default), 1
Lam2s == {0, 1, 2}

TenantKw == {EmptyDict} \cup {"tenant" :> t : t \in TenantNames}

\* search_method (and the vector near_vector needs) in kwargs; "bm25" is not
\* a search method of _perform_search
ModeKw ==
  { EmptyDict,
    "search_method" :> "near_text",
    "search_method" :> "near_vector",
    ("search_method" :> "near_vector") @@ ("near_vector" :> <<1, 0>>),
    "search_method" :> "bm25" }

\* the other kwargs a caller passes through to the engine query
PassKw ==
  { EmptyDict,
    "return_uuids" :> TRUE,
    "include_vector" :> TRUE,
    "return_metadata" :> <<"score">>,
    "return_properties" :> <<"source">> }

SearchKwargs == {(t @@ m) @@ p : t \in TenantKw, m \in ModeKw, p \in PassKw}

VectorKwargs == {t @@ p : t \in TenantKw, p \in PassKw}

MmrKwargs == {t @@ p : t \in TenantKw, p \in {EmptyDict, "return_uuids" :> TRUE}}

DeleteIds == {<<>>, << <<"g1">> >>, << <<"g1", "g2">> >>}

SearchStep(c) ==
  \/ /\ Free(c)
     /\ \E query \in Queries, k \in 1..MaxK, keyword_query \in {None, "bye"},
           kwargs \in SearchKwargs :
          \E eng \in EngineOutcomes(Get(kwargs, "tenant", None), k) :
            SimilaritySearch(c, query, k, keyword_query, kwargs, eng)
  \/ /\ Free(c)
     /\ \E query \in Queries, k \in 1..MaxK, kwargs \in SearchKwargs :
          \E eng \in EngineOutcomes(Get(kwargs, "tenant", None), k) :
            SimilaritySearchWithScore(c, query, k, kwargs, eng)
  \/ /\ Free(c)
     /\ \E embedding \in QueryVectors, k \in 1..MaxK, kwargs \in VectorKwargs :
          \E eng \in EngineOutcomes(Get(kwargs, "tenant", None), k) :
            SimilaritySearchByVector(c, embedding, k, kwargs, eng)
  \/ /\ Free(c)
     /\ \E query \in Queries, k \in 1..MaxK, fetch_k \in 1..MaxK, lam2 \in Lam2s,
           kwargs \in MmrKwargs :
          \E eng \in EngineOutcomes(Get(kwargs, "tenant", None), fetch_k) :
            MaxMarginalRelevanceSearch(c, query, k, fetch_k, lam2, kwargs, eng)
  \/ /\ Free(c)
     /\ \E embedding \in QueryVectors, k \in 1..MaxK, fetch_k \in 1..MaxK,
           lam2 \in Lam2s, kwargs \in MmrKwargs :
          \E eng \in EngineOutcomes(Get(kwargs, "tenant", None), fetch_k) :
            MaxMarginalRelevanceSearchByVector(c, embedding, k, fetch_k, lam2, kwargs, eng)
  \/ /\ Free(c)
     /\ \E ids \in DeleteIds, tenant \in TenantArgs : Delete(c, ids, tenant)

Callers == {1}

Init == InitWith(Callers)

Next == \E c \in Callers : AddTextsStep(c) \/ SearchStep(c) \/ NextCall(c)

\* one caller: add_texts, the searches and delete, one call at a time
Spec == Init /\ [][Next]_vars

\* the add_texts calls of the ingestion specification: caller ids and uuids
AddTextsIdsStep(c) ==
  \/ /\ Free(c)
     /\ \E n \in 0..MaxTexts :
          \E texts \in SeqsOfLen(Texts, n),
             metadatas \in {<<>>, << [i \in 1..n |-> "source" :> "x"] >>},
             tenant \in TenantArgs, kwargs \in AddKwargsFor(n) :
            AddTextsCall(c, texts, metadatas, tenant, kwargs)
  \/ AddTextsCreateTenant(c)
  \/ /\ call[c].pc = "batch"
     /\ \E gen \in SeqsOfLen(GenUuids, Len(call[c].args.texts)),
           failed \in SUBSET (1..Len(call[c].args.texts)) :
          AddTextsBatch(c, gen, failed)
  \/ AddTextsReturn(c)

NextAdd == \E c \in Callers : AddTextsIdsStep(c)

\* one add_texts call, with every way of passing ids, from start to return
SpecAdd == Init /\ [][NextAdd]_vars

\* add_texts calls in flight at once, each caller making one
ConcCallers == 1..MaxCallers

AddTextsConcStep(c) ==
  \/ /\ Free(c)
     /\ call[c].op = "none"
     /\ \E texts \in {<<>>, <<"hello">>}, tenant \in TenantArgs :
          AddTextsCall(c, texts, <<>>, tenant, EmptyDict)
  \/ AddTextsCreateTenant(c)
  \/ /\ call[c].pc = "batch"
     /\ \E gen \in SeqsOfLen(GenUuids, Len(call[c].args.texts)),
           failed \in SUBSET (1..Len(call[c].args.texts)) :
          AddTextsBatch(c, gen, failed)
  \/ AddTextsReturn(c)

InitConc == InitWith(ConcCallers)

NextConc == \E c \in ConcCallers : AddTextsConcStep(c)

\* several callers, one store: their add_texts calls interleave at every
\* engine request
SpecConc == InitConc /\ [][NextConc]_vars

(* ------------------------------ properties ---------------------------- *)

SearchOps ==
  { "similarity_search", "similarity_search_with_score",
    "similarity_search_by_vector", "max_marginal_relevance_search",
    "max_marginal_relevance_search_by_vector" }

MmrOps ==
  {"max_marginal_relevance_search", "max_marginal_relevance_search_by_vector"}

AllCallers == DOMAIN call

Done(c) == call[c].pc = "done"

\* the requests of one kind a call issued, in order
Requests(c, kind) == SelectSeq(call[c].net, LAMBDA r : r.kind = kind)

\* the call's tenant argument does not fit the store
TenantMismatch(tenant) ==
  \/ _multi_tenancy_enabled /\ tenant = None
  \/ ~_multi_tenancy_enabled /\ tenant # None

\* ConfigurationError: a ValueError of the store's own checks
IsConfigurationError(e) == e.type = "ValueError" /\ e.msg # "Error during query"

\* QueryError: the ValueError that wraps an engine query exception
IsQueryError(e) == e.type = "ValueError" /\ e.msg = "Error during query"

\* C1: an add_texts call with N texts that is not turned away by the tenant
\* assertion returns exactly N ids, the i-th being the id of the i-th write it
\* submitted (the caller's uuids, else the caller's ids, when given), and it
\* returns, never raises, whatever subset of the N writes the engine failed.
C1_AddTextsReturnsAllIds ==
  \A c \in AllCallers :
    (call[c].op = "add_texts" /\ Done(c)) =>
      LET a == call[c].args
          n == Len(a.texts)
          writes == Requests(c, "batch.add_object")
      IN \/ /\ call[c].outcome = "returned"
            /\ Len(call[c].result) = n
            /\ Len(writes) = n
            /\ \A i \in 1..n :
                 /\ call[c].result[i] = writes[i].uuid
                 /\ Has(a.kwargs, "uuids") => call[c].result[i] = a.kwargs["uuids"][i]
                 /\ (Has(a.kwargs, "ids") /\ ~Has(a.kwargs, "uuids"))
                      => call[c].result[i] = a.kwargs["ids"][i]
         \/ /\ call[c].outcome = "raised"
            /\ call[c].err.type = "AssertionError"
            /\ a.tenant # None /\ ~_multi_tenancy_enabled
            /\ writes = <<>>

\* an add_texts call of two texts, with ids, of which the engine failed one,
\* has returned
C1_Witness ==
  \E c \in AllCallers :
    /\ call[c].op = "add_texts" /\ Done(c)
    /\ Len(call[c].args.texts) = 2
    /\ Has(call[c].args.kwargs, "ids")
    /\ Len(call[c].own_failed) = 1
    /\ call[c].outcome = "returned"
    /\ call[c].result[1] # call[c].result[2]

\* C2: a search (plain, with score, by vector, MMR, MMR by vector) or a delete
\* whose tenant argument does not fit the store (none on a multi-tenant store,
\* one on a store without multi-tenancy) fails with ConfigurationError.
C2_TenantMismatchIsConfigurationError ==
  \A c \in AllCallers :
    (Done(c) /\ call[c].op \in SearchOps \cup {"delete"}
       /\ TenantMismatch(call[c].args.tenant)) =>
      /\ call[c].outcome = "raised"
      /\ IsConfigurationError(call[c].err)

\* a search with a vector on a multi-tenant store, no tenant given, was turned
\* away by the tenant check
C2_Witness ==
  \E c \in AllCallers :
    /\ Done(c) /\ call[c].op = "similarity_search_by_vector"
    /\ _multi_tenancy_enabled /\ call[c].args.tenant = None
    /\ call[c].err.msg = "Must use tenant context when multi-tenancy is enabled"

\* C3: add_texts never submits an object write without a tenant name on a
\* multi-tenant store, nor one with a tenant name on a store without
\* multi-tenancy.
C3_WritesFollowTenantRule ==
  \A c \in AllCallers :
    \A i \in 1..Len(call[c].net) :
      call[c].net[i].kind = "batch.add_object" =>
        ~TenantMismatch(call[c].net[i].tenant)

\* the query request of a search call, if it issued one
QueryRequests(c) ==
  SelectSeq(call[c].net,
            LAMBDA r : r.kind \in {"query.hybrid", "query.near_vector", "query.near_text"})

\* the Document of the i-th result of a finished search
DocOf(c, i) ==
  IF call[c].op = "similarity_search_with_score" THEN call[c].result[i].doc
  ELSE call[c].result[i]

\* C4: a hybrid search on a store without an embedding provider is no error:
\* it issues a hybrid engine query with the query text and no vector.
C4_HybridWithoutEmbeddingQueries ==
  \A c \in AllCallers :
    (Done(c) /\ call[c].op \in {"similarity_search", "similarity_search_with_score"}
       /\ call[c].args.search_method = "hybrid"
       /\ ~_embedding /\ ~TenantMismatch(call[c].args.tenant)) =>
      /\ ~IsConfigurationError(call[c].err)
      /\ \E i \in 1..Len(call[c].net) :
           /\ call[c].net[i].kind = "query.hybrid"
           /\ call[c].net[i].query = call[c].args.query
           /\ call[c].net[i].vector = NoVector

\* C5: on a store without an embedding provider, a near_text search is not
\* turned away: it issues one near_text engine query and returns what the
\* engine answers; a near_vector search that brings no vector fails with
\* ConfigurationError.
C5_TextModeNeedsNoEmbedding ==
  \A c \in AllCallers :
    (Done(c) /\ call[c].op \in {"similarity_search", "similarity_search_with_score"}
       /\ ~_embedding) =>
      /\ (call[c].args.search_method = "near_text"
            /\ ~TenantMismatch(call[c].args.tenant)) =>
           /\ Len(call[c].net) = 1
           /\ call[c].net[1].kind = "query.near_text"
           /\ call[c].net[1].query = call[c].args.query
           /\ ~IsConfigurationError(call[c].err)
           /\ call[c].engine = "answered" =>
                /\ call[c].outcome = "returned"
                /\ Len(call[c].result) = Len(call[c].hits)
      /\ (call[c].args.search_method = "near_vector"
            /\ ~Has(call[c].args.kwargs, "near_vector")) =>
           /\ call[c].outcome = "raised"
           /\ IsConfigurationError(call[c].err)

\* without an embedding provider, a near_text search has returned a document
C5_Witness ==
  \E c \in AllCallers :
    /\ Done(c) /\ call[c].op = "similarity_search" /\ ~_embedding
    /\ call[c].args.search_method = "near_text"
    /\ call[c].outcome = "returned"
    /\ Len(call[c].result) >= 1

\* C6: in every search mode, when the engine's query call raises its query
\* exception the search fails with one QueryError that carries the engine's
\* message, and returns nothing; the engine's error type does not reach the
\* caller.
C6_QueryErrorsAreWrapped ==
  \A c \in AllCallers :
    (Done(c) /\ call[c].op \in SearchOps) =>
      /\ call[c].err.type # "WeaviateQueryException"
      /\ call[c].engine = "raised" =>
           /\ call[c].outcome = "raised"
           /\ IsQueryError(call[c].err)
           /\ call[c].err.cause = "WeaviateQueryException: query failed"
           /\ call[c].result = <<>>
           /\ Len(QueryRequests(c)) = 1

\* the engine failed the query of a near_vector search
C6_Witness ==
  \E c \in AllCallers :
    /\ Done(c) /\ call[c].op = "similarity_search_by_vector"
    /\ call[c].engine = "raised"
    /\ QueryRequests(c)[1].kind = "query.near_vector"

\* C7: every document a search returns for an object add_texts wrote has the
\* text given to add_texts as its content, every key/value pair of the
\* metadata given with it in its metadata, and no entry under the text key.
C7_RoundTrip ==
  \A c \in AllCallers :
    (Done(c) /\ call[c].op \in SearchOps \ MmrOps /\ call[c].outcome = "returned") =>
      \A i \in 1..Len(call[c].result) :
        LET doc == DocOf(c, i)
            w == call[c].hits[i].written
        IN /\ doc.page_content = w.text
           /\ \A key \in DOMAIN w.metadata :
                key \in DOMAIN doc.metadata /\ doc.metadata[key] = w.metadata[key]
           /\ TEXT_KEY \notin DOMAIN doc.metadata

\* C8: no document returned by the MMR searches has a vector entry in its
\* metadata: the candidates are fetched with their vectors and the vector is
\* taken out of each selected document.
C8_MmrDocumentsHaveNoVector ==
  \A c \in AllCallers :
    (Done(c) /\ call[c].op \in MmrOps /\ call[c].outcome = "returned") =>
      /\ \A i \in 1..Len(call[c].result) :
           "vector" \notin DOMAIN call[c].result[i].metadata
      /\ Len(QueryRequests(c)) = 1
      /\ QueryRequests(c)[1].include_vector

\* an MMR search has returned two documents chosen among fetched candidates
C8_Witness ==
  \E c \in AllCallers :
    /\ Done(c) /\ call[c].op = "max_marginal_relevance_search"
    /\ call[c].outcome = "returned"
    /\ Len(call[c].hits) = 2
    /\ Len(call[c].result) = 2
    /\ \A i \in 1..2 : call[c].hits[i].vector # NoVector

C10_ConfigurationErrorsArePreflight ==
  \A c \in AllCallers :
    (Done(c) /\ call[c].outcome = "raised" /\ IsConfigurationError(call[c].err)) =>
      call[c].net = <<>>

\* C11: the failures an add_texts call logs are exactly the failed objects of
\* its own batch: under any interleaving of add_texts calls on one client, a
\* call that has returned logged one line for each failure of its own batch
\* (none missing) and no line for a failure of another call's batch.
C11_LogsOwnFailures ==
  \A c \in AllCallers :
    (call[c].op = "add_texts" /\ Done(c) /\ call[c].outcome = "returned") =>
      call[c].logged = LogLines(call[c].own_failed)

====
